---- MODULE Spec2Model ----
(***************************************************************************)
(* TarantoolLibrary (src/src/TarantoolLibrary.py): a Robot Framework       *)
(* keyword library that keeps a cache of Tarantool connections, one of     *)
(* them active, and forwards select / insert / update / delete to it.      *)
(*                                                                         *)
(* Keywords are synchronous and run one at a time, so every keyword is one *)
(* atomic action.  Python values are modelled as tagged records (PyVal);   *)
(* texts are sequences of one-character strings so that str(), int() and   *)
(* upper() are computed character by character.                            *)
(***************************************************************************)
EXTENDS Integers, Sequences, FiniteSets, TLC

(***************************************************************************)
(* Bounds of the model.                                                    *)
(***************************************************************************)
\* number of Connection objects ever constructed in one run
MaxHandles == 3

(***************************************************************************)
(* Python values.                                                          *)
(***************************************************************************)
PyNone == [t |-> "none", i |-> 0, s |-> <<>>, items |-> <<>>]

PyInt(n) == [t |-> "int", i |-> n, s |-> <<>>, items |-> <<>>]

PyStr(chars) == [t |-> "str", i |-> 0, s |-> chars, items |-> <<>>]

PyBytes(chars) == [t |-> "bytes", i |-> 0, s |-> chars, items |-> <<>>]

PyTuple(elems) == [t |-> "tuple", i |-> 0, s |-> <<>>, items |-> elems]

PyList(elems) == [t |-> "list", i |-> 0, s |-> <<>>, items |-> elems]

\* an exception object: its class and the text it carries
PyExc(kind, chars) == [t |-> "exc", i |-> 0, s |-> <<kind>> \o chars, items |-> <<>>]

IsExc(v) == v.t = "exc"

ExcKind(v) == v.s[1]

ExcText(v) == SubSeq(v.s, 2, Len(v.s))

\* isinstance(v, (list, tuple))
IsListOrTuple(v) == v.t \in {"list", "tuple"}

(***************************************************************************)
(* Text primitives of the Python runtime.                                  *)
(***************************************************************************)
Digits == <<"0", "1", "2", "3", "4", "5", "6", "7", "8", "9">>

DigitVal(c) == (CHOOSE k \in 1..10 : Digits[k] = c) - 1

IsDigit(c) == \E k \in 1..10 : Digits[k] = c

\* str.upper() on one character
UpperChar(c) ==
    CASE c = "s" -> "S" [] c = "t" -> "T" [] c = "r" -> "R"
      [] c = "n" -> "N" [] c = "u" -> "U" [] c = "m" -> "M"
      [] c = "i" -> "I" [] OTHER -> c

upper(chars) == [k \in 1..Len(chars) |-> UpperChar(chars[k])]

RECURSIVE NatToStr(_)
NatToStr(n) ==
    IF n < 10 THEN <<Digits[n + 1]>>
    ELSE NatToStr(n \div 10) \o <<Digits[(n % 10) + 1]>>

\* str(n) for an int
IntToStr(n) == IF n < 0 THEN <<"-">> \o NatToStr(0 - n) ELSE NatToStr(n)

RECURSIVE DigitsToNat(_)
DigitsToNat(chars) ==
    IF chars = <<>> THEN 0
    ELSE 10 * DigitsToNat(SubSeq(chars, 1, Len(chars) - 1))
         + DigitVal(chars[Len(chars)])

AllDigits(chars) == chars # <<>> /\ \A k \in 1..Len(chars) : IsDigit(chars[k])

\* int(text): an optional sign followed by decimal digits, else ValueError
IsIntLiteral(chars) ==
    /\ chars # <<>>
    /\ IF chars[1] = "-" THEN AllDigits(Tail(chars)) ELSE AllDigits(chars)

ParseInt(chars) ==
    IF chars[1] = "-" THEN 0 - DigitsToNat(Tail(chars)) ELSE DigitsToNat(chars)

\* a byte that is not valid UTF-8 is written "\\xff"
IsUtf8(chars) == \A k \in 1..Len(chars) : chars[k] # "\\xff"

\* str(key)
py_str(key) ==
    CASE key.t = "int" -> PyStr(IntToStr(key.i))
      [] key.t = "str" -> key
      [] key.t = "none" -> PyStr(<<"N", "o", "n", "e">>)
      [] OTHER -> PyStr(<<"<", key.t, ">">>)

\* int(key)
py_int(key) ==
    CASE key.t = "int" -> key
      [] key.t \in {"str", "bytes"} ->
           IF IsIntLiteral(key.s) THEN PyInt(ParseInt(key.s))
           ELSE PyExc("ValueError", key.s)
      [] OTHER -> PyExc("TypeError", <<>>)

\* codecs.decode(key) with the default encoding
codecs_decode(key) ==
    IF IsUtf8(key.s) THEN PyStr(key.s) ELSE PyExc("UnicodeDecodeError", <<>>)

(***************************************************************************)
(* _modify_key_type                                                        *)
(***************************************************************************)
STR == <<"S", "T", "R">>

NUM == <<"N", "U", "M">>

NUM64 == <<"N", "U", "M", "6", "4">>

\* _modify_key_type without the call of upper()
modify_key_type_case_sensitive(key, key_type) ==
    IF key_type = STR
    THEN IF key.t = "bytes" THEN codecs_decode(key) ELSE py_str(key)
    ELSE IF key_type \in {NUM, NUM64}
         THEN py_int(key)
         ELSE PyExc("Exception", key_type)

modify_key_type(key, key_type) ==
    LET kt == upper(key_type) IN
    IF kt = STR
    THEN IF key.t = "bytes" THEN codecs_decode(key) ELSE py_str(key)
    ELSE IF kt \in {NUM, NUM64}
         THEN py_int(key)
         ELSE PyExc("Exception", kt)

(***************************************************************************)
(* create_operation                                                        *)
(***************************************************************************)
Operations == {"+", "-", "&", "|", "^", ":", "!", "=", "#"}

\* create_operation with append(arg) in place of extend(arg)
create_operation_nested(operation, field, arg) ==
    IF operation \notin Operations
    THEN PyExc("Exception", <<operation>>)
    ELSE PyTuple(<<PyStr(<<operation>>), PyInt(field), arg>>)

create_operation(operation, field, arg) ==
    IF operation \notin Operations
    THEN PyExc("Exception", <<operation>>)
    ELSE IF IsListOrTuple(arg)
         THEN PyTuple(<<PyStr(<<operation>>), PyInt(field)>> \o arg.items)
         ELSE PyTuple(<<PyStr(<<operation>>), PyInt(field), arg>>)

(***************************************************************************)
(* robot.utils.ConnectionCache, the cache the library creates in __init__  *)
(* and calls in connect / close_all / switch.  A cache value is a record:  *)
(* connections (the list _connections), aliases (the dict _aliases, alias  *)
(* -> index) and current (0 stands for the cache's "no connection").       *)
(* Alias names used here are already in NormalizedDict's normal form.      *)
(***************************************************************************)
NoConn == 0

NoAliases == [a \in {} |-> 0]

EmptyCache == [connections |-> <<>>, aliases |-> NoAliases, current |-> NoConn]

\* ConnectionCache.register: the new cache and the index it returns
cache_register(c, conn, alias) ==
    LET index == Len(c.connections) + 1 IN
    [cache |-> [connections |-> Append(c.connections, conn),
                aliases |-> IF alias.t = "str"
                            THEN [a \in DOMAIN c.aliases \cup {alias.s} |->
                                    IF a = alias.s THEN index ELSE c.aliases[a]]
                            ELSE c.aliases,
                current |-> conn],
     index |-> index]

\* ConnectionCache.current_index: 0 stands for None
cache_current_index(c) ==
    IF c.current = NoConn THEN 0
    ELSE CHOOSE k \in 1..Len(c.connections) :
           /\ c.connections[k] = c.current
           /\ \A j \in 1..(k - 1) : c.connections[j] # c.current

\* ConnectionCache.resolve_alias_or_index: 0 stands for ValueError
cache_resolve_alias_or_index(c, x) ==
    IF x.t = "str" /\ x.s \in DOMAIN c.aliases
    THEN c.aliases[x.s]
    ELSE LET n == py_int(x) IN
         IF IsExc(n) THEN 0
         ELSE IF 0 < n.i /\ n.i <= Len(c.connections) THEN n.i ELSE 0

\* ConnectionCache.switch: the new cache and the connection it returns,
\* or the RuntimeError it raises
cache_switch(c, x) ==
    LET index == cache_resolve_alias_or_index(c, x) IN
    IF index = 0
    THEN [cache |-> c, result |-> PyExc("RuntimeError", <<>>), conn |-> NoConn]
    ELSE [cache |-> [c EXCEPT !.current = c.connections[index]],
          result |-> PyNone, conn |-> c.connections[index]]

\* the connections close() is invoked on when those in failing raise: the
\* loop stops at the first close() that raises
RECURSIVE ClosedPrefix(_, _)
ClosedPrefix(conns, failing) ==
    IF conns = <<>> THEN <<>>
    ELSE IF Head(conns) \in failing THEN <<Head(conns)>>
         ELSE <<Head(conns)>> \o ClosedPrefix(Tail(conns), failing)

\* ConnectionCache.close_all: close() on each connection, then empty_cache()
cache_close_all(c, failing) ==
    LET invoked == ClosedPrefix(c.connections, failing) IN
    IF \E k \in 1..Len(invoked) : invoked[k] \in failing
    THEN [cache |-> c, result |-> PyExc("CloseError", <<>>), invoked |-> invoked]
    ELSE [cache |-> EmptyCache, result |-> PyNone, invoked |-> invoked]

(***************************************************************************)
(* State.                                                                  *)
(***************************************************************************)
VARIABLES
    _connection,  \* self._connection: a connection handle, 0 for None
    _cache,       \* self._cache
    made,         \* number of Connection objects constructed so far
    kw,           \* the last keyword called and its arguments
    ret,          \* what it returned, or the exception it raised
    sent,         \* the call it forwarded to a connection, if any
    closing,      \* the connections it invoked close() on, in order
    before,       \* _connection and _cache when it was called
    connects      \* successful connects since creation or the last close_all call

vars == <<_connection, _cache, made, kw, ret, sent, closing, before, connects>>

NoCall == [h |-> 0, m |-> "none", key |-> PyNone, arg |-> PyNone]

NoKw == [name |-> "none", a1 |-> PyNone, a2 |-> PyNone, a3 |-> PyNone]

Kw(name, a1, a2, a3) == [name |-> name, a1 |-> a1, a2 |-> a2, a3 |-> a3]

Snapshot == [connection |-> _connection, cache |-> _cache]

\* __init__
Init ==
    /\ _connection = NoConn
    /\ _cache = EmptyCache
    /\ made = 0
    /\ kw = NoKw
    /\ ret = PyNone
    /\ sent = NoCall
    /\ closing = <<>>
    /\ before = [connection |-> NoConn, cache |-> EmptyCache]
    /\ connects = 0

(***************************************************************************)
(* Inputs.                                                                 *)
(***************************************************************************)
Aliases == {PyNone, PyStr(<<"a">>), PyStr(<<"b">>)}

Ports == {PyStr(<<"3", "3">>), PyStr(<<"x">>)}

\* what the Connection constructor does: hand out a connection or raise
Networks == {PyNone, PyExc("NetworkError", <<"refused">>)}

SwitchArgs ==
    {PyInt(n) : n \in 0..(MaxHandles + 1)}
      \cup {PyStr(<<"a">>), PyStr(<<"b">>), PyStr(<<"2">>), PyStr(<<"x">>)}

Keys ==
    {PyInt(7), PyStr(<<"4", "2">>), PyStr(<<"x">>),
     PyBytes(<<"-", "5">>), PyBytes(<<"\\xff">>)}

KeyTypes ==
    {PyNone, PyStr(<<>>), PyStr(STR), PyStr(<<"s", "t", "r">>),
     PyStr(<<"N", "u", "m">>), PyStr(<<"n", "u", "m", "6", "4">>),
     PyStr(<<"I", "N", "T">>)}

\* what the server answers: a response, or an error the client raises
Response == PyList(<<PyInt(1)>>)

Responses == {Response, PyExc("DatabaseError", <<>>)}

(***************************************************************************)
(* The connection property and the keywords.                               *)
(***************************************************************************)
\* property connection without the check for None
connection_unchecked == PyInt(_connection)

\* property connection: the handle, or AttributeError when there is none
connection ==
    IF _connection = NoConn
    THEN PyExc("AttributeError", <<"No database connection found.">>)
    ELSE PyInt(_connection)

\* str(exc) of the failure inside the try block of connect_to_tarantool
ConnectFailure(port, network) ==
    LET p == py_int(port) IN
    IF IsExc(p) THEN p ELSE network

\* connect_to_tarantool resetting self._connection when the logon fails
connect_drops_active(port, network, alias) ==
    /\ made < MaxHandles
    /\ kw' = Kw("connect", port, network, alias)
    /\ before' = Snapshot
    /\ sent' = NoCall
    /\ closing' = <<>>
    /\ LET exc == ConnectFailure(port, network) IN
       IF IsExc(exc)
       THEN /\ ret' = PyExc("Exception", ExcText(exc))
            /\ _connection' = NoConn
            /\ UNCHANGED <<_cache, made, connects>>
       ELSE LET conn == made + 1
                reg == cache_register(_cache, conn, alias) IN
            /\ made' = conn
            /\ _connection' = conn
            /\ _cache' = reg.cache
            /\ ret' = PyInt(reg.index)
            /\ connects' = connects + 1

connect_to_tarantool(port, network, alias) ==
    /\ made < MaxHandles
    /\ kw' = Kw("connect", port, network, alias)
    /\ before' = Snapshot
    /\ sent' = NoCall
    /\ closing' = <<>>
    /\ LET exc == ConnectFailure(port, network) IN
       IF IsExc(exc)
       THEN /\ ret' = PyExc("Exception", ExcText(exc))
            /\ UNCHANGED <<_connection, _cache, made, connects>>
       ELSE LET conn == made + 1
                reg == cache_register(_cache, conn, alias) IN
            /\ made' = conn
            /\ _connection' = conn
            /\ _cache' = reg.cache
            /\ ret' = PyInt(reg.index)
            /\ connects' = connects + 1

\* close_all_tarantool_connections without "self._connection = None"
close_all_keeps_connection(failing) ==
    /\ kw' = Kw("close_all", PyNone, PyNone, PyNone)
    /\ before' = Snapshot
    /\ sent' = NoCall
    /\ connects' = 0
    /\ LET r == cache_close_all(_cache, failing) IN
       /\ closing' = r.invoked
       /\ _cache' = r.cache
       /\ ret' = r.result
    /\ UNCHANGED <<_connection, made>>

close_all_tarantool_connections(failing) ==
    /\ kw' = Kw("close_all", PyNone, PyNone, PyNone)
    /\ before' = Snapshot
    /\ sent' = NoCall
    /\ connects' = 0
    /\ LET r == cache_close_all(_cache, failing) IN
       /\ closing' = r.invoked
       /\ _cache' = r.cache
       /\ ret' = r.result
       /\ _connection' = IF IsExc(r.result) THEN _connection ELSE NoConn
    /\ UNCHANGED made

\* switch_tarantool_connection reading current_index after the switch
switch_returns_new_index(index_or_alias) ==
    /\ kw' = Kw("switch", index_or_alias, PyNone, PyNone)
    /\ before' = Snapshot
    /\ sent' = NoCall
    /\ closing' = <<>>
    /\ LET r == cache_switch(_cache, index_or_alias) IN
       /\ _cache' = r.cache
       /\ _connection' = IF IsExc(r.result) THEN _connection ELSE r.conn
       /\ ret' = IF IsExc(r.result) THEN r.result
                 ELSE PyInt(cache_current_index(r.cache))
    /\ UNCHANGED <<made, connects>>

\* switch_tarantool_connection swallowing the lookup error and going on
\* with no connection
switch_falls_back_to_none(index_or_alias) ==
    /\ kw' = Kw("switch", index_or_alias, PyNone, PyNone)
    /\ before' = Snapshot
    /\ sent' = NoCall
    /\ closing' = <<>>
    /\ LET old_index == cache_current_index(_cache)
           r == cache_switch(_cache, index_or_alias) IN
       /\ _cache' = r.cache
       /\ _connection' = r.conn
       /\ ret' = PyInt(old_index)
    /\ UNCHANGED <<made, connects>>

switch_tarantool_connection(index_or_alias) ==
    /\ kw' = Kw("switch", index_or_alias, PyNone, PyNone)
    /\ before' = Snapshot
    /\ sent' = NoCall
    /\ closing' = <<>>
    /\ LET old_index == cache_current_index(_cache)
           r == cache_switch(_cache, index_or_alias) IN
       /\ _cache' = r.cache
       /\ _connection' = IF IsExc(r.result) THEN _connection ELSE r.conn
       /\ ret' = IF IsExc(r.result) THEN r.result ELSE PyInt(old_index)
    /\ UNCHANGED <<made, connects>>

\* "if key_type:" followed by the call of _modify_key_type
CoercedKey(key, key_type) ==
    IF key_type.t = "str" /\ key_type.s # <<>>
    THEN modify_key_type(key, key_type.s)
    ELSE key

\* self.connection.<method>(...): what is forwarded and what comes back
Forward(method, key, arg, resp) ==
    LET conn == connection IN
    IF IsExc(conn)
    THEN /\ ret' = conn
         /\ sent' = NoCall
    ELSE /\ ret' = resp
         /\ sent' = [h |-> conn.i, m |-> method, key |-> key, arg |-> arg]

select(key, key_type, resp) ==
    /\ kw' = Kw("select", key, key_type, PyNone)
    /\ before' = Snapshot
    /\ closing' = <<>>
    /\ LET k == CoercedKey(key, key_type) IN
       IF IsExc(k)
       THEN ret' = k /\ sent' = NoCall
       ELSE Forward("select", k, PyNone, resp)
    /\ UNCHANGED <<_connection, _cache, made, connects>>

insert(values, resp) ==
    /\ kw' = Kw("insert", values, PyNone, PyNone)
    /\ before' = Snapshot
    /\ closing' = <<>>
    /\ Forward("insert", PyNone, values, resp)
    /\ UNCHANGED <<_connection, _cache, made, connects>>

create_operation_keyword(operation, field, arg) ==
    /\ kw' = Kw("create_operation", PyStr(<<operation>>), PyInt(field), arg)
    /\ before' = Snapshot
    /\ closing' = <<>>
    /\ sent' = NoCall
    /\ ret' = create_operation(operation, field, arg)
    /\ UNCHANGED <<_connection, _cache, made, connects>>

\* update without the else branch that wraps a single operation
update_never_wraps(key, op_list, key_type, resp) ==
    /\ kw' = Kw("update", key, key_type, op_list)
    /\ before' = Snapshot
    /\ closing' = <<>>
    /\ LET k == CoercedKey(key, key_type) IN
       IF IsExc(k)
       THEN ret' = k /\ sent' = NoCall
       ELSE Forward("update", k, op_list, resp)
    /\ UNCHANGED <<_connection, _cache, made, connects>>

update(key, op_list, key_type, resp) ==
    /\ kw' = Kw("update", key, key_type, op_list)
    /\ before' = Snapshot
    /\ closing' = <<>>
    /\ LET k == CoercedKey(key, key_type) IN
       IF IsExc(k)
       THEN ret' = k /\ sent' = NoCall
       ELSE IF op_list.items = <<>>
            THEN ret' = PyExc("IndexError", <<>>) /\ sent' = NoCall
            ELSE IF IsListOrTuple(op_list.items[1])
                 THEN Forward("update", k, op_list, resp)
                 ELSE Forward("update", k, PyList(<<op_list>>), resp)
    /\ UNCHANGED <<_connection, _cache, made, connects>>

delete(key, key_type, resp) ==
    /\ kw' = Kw("delete", key, key_type, PyNone)
    /\ before' = Snapshot
    /\ closing' = <<>>
    /\ LET k == CoercedKey(key, key_type) IN
       IF IsExc(k)
       THEN ret' = k /\ sent' = NoCall
       ELSE Forward("delete", k, PyNone, resp)
    /\ UNCHANGED <<_connection, _cache, made, connects>>

\* the operation of the spec's scenario, ('=', 1, 'X')
OpX == PyTuple(<<PyStr(<<"=">>), PyInt(1), PyStr(<<"X">>)>>)

OpY == PyTuple(<<PyStr(<<"=">>), PyInt(2), PyStr(<<"Y">>)>>)

OpLists ==
    {OpX, PyList(OpX.items), PyList(<<OpX, OpY>>), PyTuple(<<OpX>>), PyList(<<>>)}

\* update and delete coerce their key by the same two lines as select
UpdateKeys == {PyStr(<<"4", "2">>), PyStr(<<"x">>)}

UpdateKeyTypes == {PyNone, PyStr(<<"n", "u", "m", "6", "4">>), PyStr(<<"I", "N", "T">>)}

DeleteKeyTypes == {PyNone, PyStr(<<"N", "u", "m">>)}

Fields == {0, 1}

Values == {PyTuple(<<PyInt(1), PyStr(<<"v">>)>>)}

OperationInputs == Operations \cup {"x"}

Args ==
    {PyStr(<<"X">>), PyList(<<>>), PyList(<<PyInt(1), PyStr(<<"y">>)>>),
     PyTuple(<<PyInt(0), PyInt(2), PyStr(<<"y">>)>>)}

Next ==
    \/ \E port \in Ports, network \in Networks, alias \in Aliases :
         connect_to_tarantool(port, network, alias)
    \/ \E failing \in SUBSET {_cache.connections[k] : k \in 1..Len(_cache.connections)} :
         close_all_tarantool_connections(failing)
    \/ \E x \in SwitchArgs : switch_tarantool_connection(x)
    \/ \E key \in Keys, key_type \in KeyTypes : select(key, key_type, Response)
    \/ \E values \in Values, resp \in Responses : insert(values, resp)
    \/ \E operation \in OperationInputs, field \in Fields, arg \in Args :
         create_operation_keyword(operation, field, arg)
    \/ \E key \in UpdateKeys, op_list \in OpLists, key_type \in UpdateKeyTypes :
         update(key, op_list, key_type, Response)
    \/ \E key \in Keys, key_type \in DeleteKeyTypes : delete(key, key_type, Response)

Spec == Init /\ [][Next]_vars

(***************************************************************************)
(* Properties.  kw, ret, sent, closing and before describe the keyword     *)
(* that was called last; the predicates below read the claims off them.    *)
(***************************************************************************)
Called(name) == kw.name = name

Failed == IsExc(ret)

Registered(c) == {c.connections[k] : k \in 1..Len(c.connections)}

\* the "if key_type:" test, read off the arguments of the last keyword
KeyTypeGiven == kw.a2.t = "str" /\ kw.a2.s # <<>>

\* spellings of the three tags in any mix of cases among the inputs
StrTags == {<<"S", "T", "R">>, <<"s", "t", "r">>}

NumTags == {<<"N", "u", "m">>, <<"n", "u", "m", "6", "4">>}

\* C1: the k-th successful connect since creation or since the most recent
\* close_all returns k, and the connection it registered is the active one.
C1_ConnectReturnsCount ==
    (Called("connect") /\ ~Failed) =>
        /\ ret = PyInt(connects)
        /\ _connection = _cache.connections[Len(_cache.connections)]
        /\ _cache.current = _connection

\* C2: switch on a registered index or alias succeeds, returns the index that
\* was active before the call and makes the targeted connection active.
C2_SwitchReturnsPrevious ==
    Called("switch") =>
        LET c == before.cache
            x == kw.a1
            byIndex == x.t = "int" /\ x.i \in 1..Len(c.connections)
            byAlias == x.t = "str" /\ x.s \in DOMAIN c.aliases
        IN  /\ (byIndex \/ byAlias) => ~Failed
            /\ ~Failed =>
                 /\ ret.t = "int"
                 /\ ret.i \in 1..Len(c.connections)
                 /\ c.connections[ret.i] = before.connection
                 /\ _cache.current = _connection
            /\ byIndex => _connection = c.connections[x.i]
            /\ byAlias => _connection = c.connections[c.aliases[x.s]]

\* the scenario of the claim: connect -> 1, connect alias b -> 2, switch(1)
\* returned 2, and now switch("b") returned 1 with connection 2 active
C2_Witness ==
    /\ Called("switch")
    /\ kw.a1 = PyStr(<<"b">>)
    /\ ret = PyInt(1)
    /\ Len(_cache.connections) = 2
    /\ _connection = _cache.connections[2]
    /\ before.connection = _cache.connections[1]

\* an index or alias that names no entry of the cache
Unregistered(c, x) ==
    /\ ~(x.t = "str" /\ x.s \in DOMAIN c.aliases)
    /\ \/ x.t = "int" /\ x.i \notin 1..Len(c.connections)
       \/ x.t = "str" /\ ~IsIntLiteral(x.s)
       \/ x.t = "str" /\ IsIntLiteral(x.s) /\ ParseInt(x.s) \notin 1..Len(c.connections)

\* C3: switch on an unregistered index or alias fails with a lookup error and
\* leaves the active connection and the cache as they were.
C3_SwitchUnknownFails ==
    (Called("switch") /\ Unregistered(before.cache, kw.a1)) =>
        /\ Failed
        /\ ExcKind(ret) = "RuntimeError"
        /\ _connection = before.connection
        /\ _cache = before.cache
        /\ sent = NoCall

C3_Witness ==
    /\ Called("switch")
    /\ Unregistered(before.cache, kw.a1)
    /\ Failed
    /\ _connection # NoConn
    /\ Len(_cache.connections) >= 2

\* C4: close_all invokes close on every registered connection even when a
\* close fails, and after it returns the cache is empty and nothing is active.
C4_CloseAllBestEffort ==
    Called("close_all") =>
        /\ \A h \in Registered(before.cache) : \E k \in 1..Len(closing) : closing[k] = h
        /\ ~Failed => (_cache = EmptyCache /\ _connection = NoConn)

\* C5: the handle the facade forwards to is the cache's current connection,
\* None exactly when the cache has none, and it is one registered entry.
C5_FacadeFollowsCache ==
    /\ _connection = _cache.current
    /\ (_connection = NoConn) = (_cache.connections = <<>>)
    /\ _connection # NoConn =>
         Cardinality({k \in 1..Len(_cache.connections) :
                        _cache.connections[k] = _connection}) = 1
    /\ sent # NoCall => (sent.h = _cache.current /\ sent.h = before.cache.current)

C5_Witness ==
    /\ Called("select")
    /\ sent # NoCall
    /\ Len(_cache.connections) >= 2
    /\ sent.h = _cache.connections[1]

Forwarding == {"select", "insert", "update", "delete"}

\* C6 as stated: with no active connection select, insert, update and delete
\* fail with the "no connection" error and forward nothing.
C6_NoConnectionStateError ==
    (before.connection = NoConn /\ kw.name \in Forwarding) =>
        (Failed /\ ExcKind(ret) = "AttributeError" /\ sent = NoCall)

\* C6 as amended: with no active connection the four forwarding keywords fail
\* and forward nothing; the error is the "no connection" error unless
\* preparing the arguments (key coercion, op_list[0]) raised first; of the
\* keywords that need a connection or create one, only connect can succeed.
C6_NoConnectionFails ==
    before.connection = NoConn =>
        /\ kw.name \in Forwarding =>
             /\ Failed
             /\ sent = NoCall
             /\ \/ ExcKind(ret) = "AttributeError"
                \/ KeyTypeGiven /\ ExcKind(ret) \in {"Exception", "ValueError", "UnicodeDecodeError"}
                \/ Called("update") /\ kw.a3.items = <<>> /\ ExcKind(ret) = "IndexError"
             /\ (~KeyTypeGiven /\ (Called("update") => kw.a3.items # <<>>)) =>
                  ExcKind(ret) = "AttributeError"
        /\ (kw.name \in Forwarding \cup {"switch"}) => Failed
        /\ (kw.name # "none" /\ ~Failed) =>
             kw.name \in {"connect", "close_all", "create_operation"}

C6_Witness ==
    /\ before.connection = NoConn
    /\ before.cache = EmptyCache
    /\ Called("select")
    /\ ~KeyTypeGiven
    /\ Failed
    /\ made > 0

\* C7: a failed connect raises an error carrying the original failure's
\* message, registers nothing and leaves the active connection active.
C7_FailedConnect ==
    (Called("connect") /\ Failed) =>
        /\ ExcKind(ret) = "Exception"
        /\ ExcText(ret) = (IF IsIntLiteral(kw.a1.s) THEN ExcText(kw.a2) ELSE kw.a1.s)
        /\ _cache = before.cache
        /\ _connection = before.connection
        /\ _cache.current = before.connection

C7_Witness ==
    /\ Called("connect")
    /\ Failed
    /\ ExcText(ret) = <<"refused">>
    /\ _connection # NoConn
    /\ Len(_cache.connections) = 1

\* C8: update forwards a flat operation tuple as a one-element sequence
\* holding it and a sequence of operations unchanged; the key goes out
\* coerced when a key type is given and unchanged otherwise.
C8_UpdateNormalizes ==
    Called("update") =>
        LET op_list == kw.a3
            prepared == op_list.items # <<>> /\ (KeyTypeGiven => ~Failed)
        IN  /\ (before.connection # NoConn /\ ~KeyTypeGiven /\ op_list.items # <<>>) =>
                 sent.m = "update"
            /\ sent # NoCall =>
                 /\ sent.m = "update"
                 /\ sent.h = before.connection
                 /\ prepared
                 /\ IF IsListOrTuple(op_list.items[1])
                    THEN sent.arg = op_list
                    ELSE /\ Len(sent.arg.items) = 1
                         /\ sent.arg.items[1] = op_list
                         /\ sent.arg.t = "list"
                 /\ IF KeyTypeGiven
                    THEN sent.key.t = "int" /\ IntToStr(sent.key.i) = kw.a1.s
                    ELSE sent.key = kw.a1

C8_Witness ==
    /\ Called("update")
    /\ kw.a3 = OpX
    /\ KeyTypeGiven
    /\ sent.m = "update"
    /\ sent.arg = PyList(<<OpX>>)
    /\ sent.key = PyInt(42)

\* C9: create_operation gives (opcode, field, arg) for a scalar arg and
\* (opcode, field, arg[1], ..., arg[n]) for a list or tuple of length n, for
\* every opcode of the set, and fails for every other opcode.
C9_CreateOperation ==
    Called("create_operation") =>
        LET operation == kw.a1
            field == kw.a2
            arg == kw.a3
        IN  IF operation.s[1] \in {"+", "-", "&", "|", "^", ":", "!", "=", "#"}
            THEN /\ ret.t = "tuple"
                 /\ ret.items[1] = operation
                 /\ ret.items[2] = field
                 /\ IF arg.t \in {"list", "tuple"}
                    THEN /\ Len(ret.items) = 2 + Len(arg.items)
                         /\ \A k \in 1..Len(arg.items) : ret.items[2 + k] = arg.items[k]
                    ELSE /\ Len(ret.items) = 3
                         /\ ret.items[3] = arg
            ELSE Failed /\ ExcKind(ret) = "Exception" /\ ExcText(ret) = operation.s

C9_Witness ==
    /\ Called("create_operation")
    /\ kw.a1 = PyStr(<<":">>)
    /\ kw.a3.t = "tuple"
    /\ Len(ret.items) = 5
    /\ ret.items[5] = PyStr(<<"y">>)

\* C10: the key type is matched against STR, NUM, NUM64 whatever its case;
\* STR gives the text of the key, NUM and NUM64 its integer value, any other
\* tag fails naming the tag; the cache and the active connection are untouched.
C10_ModifyKeyType ==
    (kw.name \in {"select", "update", "delete"} /\ KeyTypeGiven) =>
        LET key == kw.a1
            tag == kw.a2.s
            \* failures that come after the coercion
            later ==
                \/ before.connection = NoConn /\ ExcKind(ret) = "AttributeError"
                \/ Called("update") /\ kw.a3.items = <<>> /\ ExcKind(ret) = "IndexError"
        IN  /\ _cache = before.cache
            /\ _connection = before.connection
            /\ IF tag \in StrTags
               THEN /\ Failed =>
                         \/ later
                         \/ /\ ExcKind(ret) = "UnicodeDecodeError"
                            /\ key.t = "bytes"
                            /\ \E k \in 1..Len(key.s) : key.s[k] = "\\xff"
                    /\ sent # NoCall =>
                         /\ sent.key.t = "str"
                         /\ key.t = "int" => ParseInt(sent.key.s) = key.i
                         /\ key.t \in {"str", "bytes"} => sent.key.s = key.s
               ELSE IF tag \in NumTags
               THEN /\ Failed =>
                         \/ later
                         \/ ExcKind(ret) = "ValueError" /\ ~IsIntLiteral(key.s)
                    /\ sent # NoCall =>
                         /\ sent.key.t = "int"
                         /\ key.t = "int" => sent.key = key
                         /\ key.t \in {"str", "bytes"} => IntToStr(sent.key.i) = key.s
               ELSE /\ Failed
                    /\ ExcKind(ret) = "Exception"
                    /\ ExcText(ret) = tag
                    /\ sent = NoCall

C10_Witness ==
    /\ Called("select")
    /\ kw.a2.s = <<"n", "u", "m", "6", "4">>
    /\ kw.a1 = PyBytes(<<"-", "5">>)
    /\ sent.key = PyInt(0 - 5)
    /\ Len(_cache.connections) = 2

====
